---- MODULE Spec2Model ----
(***************************************************************************)
(* A model of models/quantize.py: the quantization rewrite of a module     *)
(* tree, the custom sharing rules, calibration and the fine-tune loop.     *)
(*                                                                         *)
(* A dotted path is the sequence of its characters, so that re.match and   *)
(* str.split act on it as they do in Python.  A module tree is a function  *)
(* from the dotted path of each sub-module to its node; a Range Tracker    *)
(* (TensorQuantizer) is an object of the heap `trackers`, named by its id, *)
(* so that two nodes share a tracker exactly when they hold the same id.   *)
(***************************************************************************)
EXTENDS Integers, Sequences, FiniteSets, TLC

VARIABLES
    pc,             \* where the running call sequence stands
    initialized,    \* whether initialize() has patched torch.nn
    model,          \* the module tree: dotted path -> node
    trackers,       \* the TensorQuantizer objects: id -> state
    nextId,         \* the next fresh object identity
    origin,         \* the module tree as it was handed to the rewrite
    ignore_policy,  \* the ignore policy of the rewrite
    history,        \* the operations that have returned, in order
    files,          \* the files present in the working directory
    pairs,          \* what find_quantizer_pairs returned to the last call
    forward,        \* class name -> the function bound to Class.forward
    lastCall,       \* the last module invocation and what it computed
    cal,            \* calibrate_model's locals
    ft              \* finetune's locals

vars == <<pc, initialized, model, trackers, nextId, origin, ignore_policy,
          history, files, pairs, forward, lastCall, cal, ft>>

----------------------------------------------------------------------------
(* Names and dotted paths *)

Dot == <<".">>

a == <<"a">>
aa == <<"a", "a">>
b == <<"b">>
m0 == <<"m", "0">>
m1 == <<"m", "1">>
m2 == <<"m", "2">>
m3 == <<"m", "3">>
m4 == <<"m", "4">>
cv1 == <<"c", "v", "1">>
cv2 == <<"c", "v", "2">>
conv == <<"c", "o", "n", "v">>
adownchunkop == <<"a", "d", "o", "w", "n", "c", "h", "u", "n", "k", "o", "p">>
repaddop == <<"r", "e", "p", "a", "d", "d", "o", "p">>
concatop == <<"c", "o", "n", "c", "a", "t", "o", "p">>
upsampleop == <<"u", "p", "s", "a", "m", "p", "l", "e", "o", "p">>
nowhere == <<"m", "9">>

\* path = name if prefix == "" else prefix + "." + name
JoinPath(prefix, name) == IF prefix = <<>> THEN name ELSE prefix \o Dot \o name

\* str.split('.') of a dotted path
RECURSIVE SplitFrom(_, _)
SplitFrom(s, cur) ==
    IF s = <<>> THEN <<cur>>
    ELSE IF Head(s) = "." THEN <<cur>> \o SplitFrom(Tail(s), <<>>)
    ELSE SplitFrom(Tail(s), Append(cur, Head(s)))

Split(s) == SplitFrom(s, <<>>)

\* The names of the direct children of `prefix`, in a fixed registration order.
NameOrder == <<a, aa, b, m0, m1, m2, m3, m4, cv1, cv2, conv,
               adownchunkop, repaddop, concatop, upsampleop>>

Children(m, prefix) ==
    SelectSeq(NameOrder, LAMBDA n : JoinPath(prefix, n) \in DOMAIN m)

IsPrefix(p, q) == Len(p) <= Len(q) /\ SubSeq(q, 1, Len(p)) = p

\* q is p or lies below p in the tree
Under(p, q) == q = p \/ IsPrefix(p \o Dot, q)

----------------------------------------------------------------------------
(* Range Trackers *)

\* quant_nn.TensorQuantizer(desc): not disabled, quantizing, not collecting,
\* no amax yet, a calibrator of the descriptor's calib_method.
NewTracker(calib) ==
    [calib |-> calib, disabled |-> FALSE, if_quant |-> TRUE, if_calib |-> FALSE,
     samples |-> 0, amax |-> "absent"]

\* The calib_method of the default input descriptor of the quant classes
\* whose default initialize() sets to "histogram"; "max" is the library default.
DefaultInputCalib(init) == IF init THEN "histogram" ELSE "max"

Node(cls, inst, quant, p) == [cls |-> cls, inst |-> inst, quant |-> quant, p |-> p]

NoQuant == [x \in {} |-> 0]
NoParams == [x \in {} |-> ""]

----------------------------------------------------------------------------
(* quantization_ignore_match *)

\* re.match(item, path): the pattern is anchored at the start of the path and
\* need not reach its end; "." matches any character, "$" only the end.
RECURSIVE ReMatch(_, _)
ReMatch(item, path) ==
    IF item = <<>> THEN TRUE
    ELSE IF Head(item) = "$" THEN path = <<>> /\ ReMatch(Tail(item), path)
    ELSE /\ path # <<>>
         /\ (Head(item) = "." \/ Head(item) = Head(path))
         /\ ReMatch(Tail(item), Tail(path))

SeqRange(s) == {s[i] : i \in DOMAIN s}

Only(S) == CHOOSE x \in S : TRUE

NonePolicy == [kind |-> "none", str |-> <<>>, list |-> <<>>, fn |-> {}]
StrPolicy(s) == [kind |-> "str", str |-> s, list |-> <<>>, fn |-> {}]
ListPolicy(l) == [kind |-> "list", str |-> <<>>, list |-> l, fn |-> {}]
\* A callable policy is the set of paths it answers True for.
CallablePolicy(S) == [kind |-> "callable", str |-> <<>>, list |-> <<>>, fn |-> S]

quantization_ignore_match_exact(policy, path) ==
    IF policy.kind = "none" THEN FALSE
    ELSE IF policy.kind = "callable" THEN path \in policy.fn
    ELSE LET items == IF policy.kind = "str" THEN <<policy.str>> ELSE policy.list
         IN  path \in SeqRange(items)

quantization_ignore_match(policy, path) ==
    IF policy.kind = "none" THEN FALSE
    ELSE IF policy.kind = "callable" THEN path \in policy.fn
    ELSE LET items == IF policy.kind = "str" THEN <<policy.str>> ELSE policy.list
         IN  \/ path \in SeqRange(items)
             \/ \E i \in DOMAIN items : ReMatch(items[i], path)

----------------------------------------------------------------------------
(* The registry and transfer_torch_to_quantization *)

\* quant_modules._DEFAULT_QUANT_MAP, restricted to the classes of the model:
\* (name in torch.nn, replacement class).
DEFAULT_QUANT_MAP ==
    << <<"Conv2d", "QuantConv2d">>, <<"Linear", "QuantLinear">>,
       <<"AvgPool2d", "QuantAvgPool2d">> >>

\* getattr(torch.nn, name): quant_modules.initialize() rebinds every name of
\* the map to its replacement class.
TorchNN(init, name) ==
    IF init /\ \E i \in DOMAIN DEFAULT_QUANT_MAP : DEFAULT_QUANT_MAP[i][1] = name
    THEN (CHOOSE e \in SeqRange(DEFAULT_QUANT_MAP) : e[1] = name)[2]
    ELSE name

\* module_dict[id(getattr(entry.orig_mod, entry.mod_name))] = entry.replace_mod
module_dict(init) ==
    [c \in {TorchNN(init, e[1]) : e \in SeqRange(DEFAULT_QUANT_MAP)} |->
        (CHOOSE e \in SeqRange(DEFAULT_QUANT_MAP) : TorchNN(init, e[1]) = c)[2]]

\* quant_nn_utils.QuantInputMixin: the classes with an input tracker only
QuantInputMixin == {"QuantAvgPool2d", "QuantMaxPool2d"}

\* st is [model, trackers, nextId].  A new instance of quantmodule takes every
\* attribute of the node (its children and parameters among them); then the
\* initializer attaches a fresh input tracker and, unless the class is a
\* QuantInputMixin, a fresh weight tracker.  Returns the new node and heap.
transfer_torch_to_quantization(st, node, quantmodule, init) ==
    LET inst == st.nextId
        tin == st.nextId + 1
        tw == st.nextId + 2
        inputOnly == quantmodule \in QuantInputMixin
        q1 == [x \in DOMAIN node.quant \cup {"_input_quantizer"} |->
                 IF x = "_input_quantizer" THEN tin ELSE node.quant[x]]
        q2 == IF inputOnly THEN q1
              ELSE [x \in DOMAIN q1 \cup {"_weight_quantizer"} |->
                      IF x = "_weight_quantizer" THEN tw ELSE q1[x]]
        tr1 == [t \in DOMAIN st.trackers \cup {tin} |->
                  IF t = tin THEN NewTracker(DefaultInputCalib(init))
                  ELSE st.trackers[t]]
        tr2 == IF inputOnly THEN tr1
               ELSE [t \in DOMAIN tr1 \cup {tw} |->
                       IF t = tw THEN NewTracker("max") ELSE tr1[t]]
    IN  [node |-> Node(quantmodule, inst, q2, node.p),
         trackers |-> tr2,
         nextId |-> st.nextId + 3]

----------------------------------------------------------------------------
(* replace_to_quantization_module *)

\* The loop of recursive_and_replace_module over the children `names` of the
\* module at `prefix`: children first, then the child itself.
RECURSIVE recursive_and_replace_module(_, _, _, _, _)
recursive_and_replace_module(st, prefix, names, policy, init) ==
    IF names = <<>> THEN st
    ELSE
        LET path == JoinPath(prefix, Head(names))
            st1 == recursive_and_replace_module(
                       st, path, Children(st.model, path), policy, init)
            submodule == st1.model[path]
            t == transfer_torch_to_quantization(
                     st1, submodule, module_dict(init)[submodule.cls], init)
            st2 == IF /\ submodule.cls \in DOMAIN module_dict(init)
                      /\ ~quantization_ignore_match(policy, path)
                   THEN [model |-> [st1.model EXCEPT ![path] = t.node],
                         trackers |-> t.trackers,
                         nextId |-> t.nextId]
                   ELSE st1
        IN  recursive_and_replace_module(st2, prefix, Tail(names), policy, init)

replace_to_quantization_module(st, policy, init) ==
    recursive_and_replace_module(st, <<>>, Children(st.model, <<>>), policy, init)

----------------------------------------------------------------------------
(* Idle values of the state the running operation does not use *)

IrregularClasses == {"ADown", "RepNBottleneck", "Concat", "Upsample"}

OrigForwardTable == [c \in IrregularClasses |-> "orig"]

NoCall == [cls |-> "", wrapped |-> FALSE, p |-> NoParams,
           result |-> [fn |-> "", args |-> <<>>]]

CalIdle == [num_batch |-> 0, batches |-> 0, i |-> 0, consumed |-> 0, unused |-> {}]

FtIdle == [nepochs |-> 0, budget |-> 0, batches |-> 0, fp16 |-> FALSE,
           callback |-> "none", policy |-> "none", no_last_layer |-> FALSE,
           sup |-> <<>>, iepoch |-> 0,
           ibatch |-> 0, hooks |-> {}, remove_handle |-> <<>>, steps |-> 0,
           error |-> ""]

----------------------------------------------------------------------------
(* The module trees and ignore policies handed to the rewrite *)

MaxEntries == 2

RewriteOrder == <<a, aa, b, JoinPath(b, a), JoinPath(b, aa)>>

RewritePaths == SeqRange(RewriteOrder)

PathIndex(path) == CHOOSE i \in DOMAIN RewriteOrder : RewriteOrder[i] = path

\* Which class stands at each candidate path: top-level leaves a and aa, and
\* b, a container or a convolution, with up to two children.
RewriteShapes ==
    {sh \in [RewritePaths -> {"absent", "Conv2d", "MaxPool2d", "Sequential"}] :
        /\ sh[a] # "Sequential"
        /\ sh[aa] \in {"absent", "Conv2d"}
        /\ sh[b] # "MaxPool2d"
        /\ sh[JoinPath(b, a)] # "Sequential"
        /\ sh[JoinPath(b, aa)] \in {"absent", "Conv2d"}
        /\ sh[b] = "absent" =>
              sh[JoinPath(b, a)] = "absent" /\ sh[JoinPath(b, aa)] = "absent"}

\* A tree built while torch.nn is patched holds QuantConv2d where the code
\* says nn.Conv2d (`native`), each with the trackers its constructor made.
RewriteTree(sh, native) ==
    [path \in {q \in RewritePaths : sh[q] # "absent"} |->
        IF native /\ sh[path] = "Conv2d"
        THEN Node("QuantConv2d", PathIndex(path),
                  [x \in {"_input_quantizer", "_weight_quantizer"} |->
                      IF x = "_input_quantizer" THEN 10 + 2 * PathIndex(path)
                      ELSE 11 + 2 * PathIndex(path)],
                  NoParams)
        ELSE Node(sh[path], PathIndex(path), NoQuant, NoParams)]

TreeTrackers(tree, init) ==
    [t \in UNION {{tree[q].quant[x] : x \in DOMAIN tree[q].quant} : q \in DOMAIN tree} |->
        IF \E q \in DOMAIN tree : "_input_quantizer" \in DOMAIN tree[q].quant
                                  /\ tree[q].quant["_input_quantizer"] = t
        THEN NewTracker(DefaultInputCalib(init))
        ELSE NewTracker("max")]

Patterns ==
    { <<"a">>, <<"a", "$">>, <<"b">>, <<"b", ".", "a">>,
      <<"b", ".", "a", "$">>, <<".", "a">>, <<"a", "a", "a">> }

SeqsUpTo(S, n) == UNION {[1..k -> S] : k \in 0..n}

Policies ==
    {NonePolicy}
    \cup {StrPolicy(s) : s \in Patterns}
    \cup {ListPolicy(l) : l \in SeqsUpTo(Patterns, MaxEntries)}
    \cup {CallablePolicy(S) : S \in {{}, {b}, {a, JoinPath(b, a)}}}

\* An identity no object of the tree or of the heap has.
FreshId(tree, tr) ==
    1 + Only({x \in {tree[q].inst : q \in DOMAIN tree} \cup DOMAIN tr \cup {0} :
                \A y \in {tree[q].inst : q \in DOMAIN tree} \cup DOMAIN tr \cup {0} : y <= x})

InitRewrite ==
    /\ pc = "idle"
    /\ initialized \in BOOLEAN
    /\ \E native \in BOOLEAN, sh \in RewriteShapes :
          /\ native => initialized
          /\ model = RewriteTree(sh, native)
    /\ trackers = TreeTrackers(model, initialized)
    /\ nextId = FreshId(model, trackers)
    /\ origin = model
    /\ ignore_policy \in Policies
    /\ history = <<>>
    /\ files = {}
    /\ pairs = <<>>
    /\ forward = OrigForwardTable
    /\ lastCall = NoCall
    /\ cal = CalIdle
    /\ ft = FtIdle

\* replace_to_quantization_module(model, ignore_policy)
ReplaceToQuantizationModule ==
    /\ pc = "idle"
    /\ "replace_to_quantization_module" \notin SeqRange(history)
    /\ LET st == replace_to_quantization_module(
                     [model |-> model, trackers |-> trackers, nextId |-> nextId],
                     ignore_policy, initialized)
       IN  /\ model' = st.model
           /\ trackers' = st.trackers
           /\ nextId' = st.nextId
    /\ origin' = model
    /\ history' = Append(history, "replace_to_quantization_module")
    /\ UNCHANGED <<pc, initialized, ignore_policy, files, pairs, forward,
                   lastCall, cal, ft>>

NextRewrite == ReplaceToQuantizationModule

SpecRewrite == InitRewrite /\ [][NextRewrite]_vars

----------------------------------------------------------------------------
(* C1 *)

Rewritten == history = <<"replace_to_quantization_module">>

\* The claim's own reading of "the policy matches the path".
PolicyMatches(policy, path) ==
    \/ policy.kind = "callable" /\ path \in policy.fn
    \/ policy.kind = "str" /\ (path = policy.str \/ ReMatch(policy.str, path))
    \/ policy.kind = "list" /\ \E i \in DOMAIN policy.list :
           path = policy.list[i] \/ ReMatch(policy.list[i], path)

Eligible(path) == origin[path].cls \in DOMAIN module_dict(initialized)

QuantClasses == {"QuantConv2d", "QuantLinear", "QuantAvgPool2d", "QuantMaxPool2d"}

\* C1: after replace_to_quantization_module returns, every registry-eligible
\* path the ignore policy matches (by equality, as a pattern, or by the callable)
\* still holds the original instance, and every registry-eligible path it does
\* not match holds a new, quantization-instrumented instance with its own input
\* tracker; children of an ignored parent follow the same rule.
C1_IgnoredKeptOthersSubstituted ==
    Rewritten =>
        \A path \in DOMAIN origin :
            Eligible(path) =>
                IF PolicyMatches(ignore_policy, path)
                THEN model[path] = origin[path]
                ELSE /\ model[path].inst # origin[path].inst
                     /\ model[path].inst \notin {origin[q].inst : q \in DOMAIN origin}
                     /\ model[path].cls = module_dict(initialized)[origin[path].cls]
                     /\ model[path].cls \in QuantClasses
                     /\ "_input_quantizer" \in DOMAIN model[path].quant
                     /\ model[path].quant["_input_quantizer"] \notin DOMAIN TreeTrackers(origin, initialized)

\* An ignored parent b (matched as a pattern, not by equality) with an eligible
\* child kept by the prefix match, beside an eligible path that was substituted.
C1_Witness ==
    /\ Rewritten
    /\ ignore_policy.kind = "list"
    /\ b \in SeqRange(ignore_policy.list)
    /\ {b, JoinPath(b, aa), aa} \subseteq DOMAIN origin
    /\ Eligible(b) /\ Eligible(JoinPath(b, aa)) /\ Eligible(aa)
    /\ model[JoinPath(b, aa)] = origin[JoinPath(b, aa)]
    /\ model[b] = origin[b]
    /\ model[aa].inst # origin[aa].inst

----------------------------------------------------------------------------
(* The detection graph: one ADown, one RepNBottleneck, one Concat, one        *)
(* MaxPool2d and one Upsample under the root, convolutions fused.             *)

P(x, y) == JoinPath(x, y)

GraphOrder ==
    << m0, P(m0, cv1), P(P(m0, cv1), conv), P(m0, cv2), P(P(m0, cv2), conv),
       m1, P(m1, cv1), P(P(m1, cv1), conv), P(m1, cv2), P(P(m1, cv2), conv),
       m2, m3, m4 >>

GraphIndex(path) == CHOOSE i \in DOMAIN GraphOrder : GraphOrder[i] = path

GraphClass(path) ==
    IF path = m0 THEN "ADown"
    ELSE IF path = m1 THEN "RepNBottleneck"
    ELSE IF path = m2 THEN "Concat"
    ELSE IF path = m3 THEN "MaxPool2d"
    ELSE IF path = m4 THEN "Upsample"
    ELSE IF path = P(m1, cv1) THEN "RepConvN"
    ELSE IF Len(Split(path)) = 2 THEN "Conv"
    ELSE "Conv2d"

GraphParams(path, add) ==
    IF path = m0 THEN [x \in {"c"} |-> "32"]
    ELSE IF path = m1 THEN [x \in {"add"} |-> IF add THEN "True" ELSE "False"]
    ELSE IF path = m2 THEN [x \in {"d"} |-> "1"]
    ELSE IF path = m4 THEN
        [x \in {"size", "scale_factor", "mode"} |->
            IF x = "size" THEN "None" ELSE IF x = "scale_factor" THEN "2" ELSE "nearest"]
    ELSE NoParams

Graph(add, native) ==
    [path \in SeqRange(GraphOrder) |->
        IF native /\ GraphClass(path) = "Conv2d"
        THEN Node("QuantConv2d", GraphIndex(path),
                  [x \in {"_input_quantizer", "_weight_quantizer"} |->
                      IF x = "_input_quantizer" THEN 20 + 2 * GraphIndex(path)
                      ELSE 21 + 2 * GraphIndex(path)],
                  NoParams)
        ELSE Node(GraphClass(path), GraphIndex(path), NoQuant, GraphParams(path, add))]

\* Module.named_modules(): the dotted paths below `prefix`, parent before child.
RECURSIVE PreOrder(_, _, _)
PreOrder(m, prefix, names) ==
    IF names = <<>> THEN <<>>
    ELSE LET path == JoinPath(prefix, Head(names))
         IN  <<path>> \o PreOrder(m, path, Children(m, path))
                      \o PreOrder(m, prefix, Tail(names))

named_modules(m) == PreOrder(m, <<>>, Children(m, <<>>))

----------------------------------------------------------------------------
(* replace_custom_module_forward *)

\* module.<wname> = Wrapper(...): a child node of class `cls` whose trackers
\* `attrs` are fresh TensorQuantizer(QuantDescriptor()) objects (calib "max").
AttachWrapper(st, name, wname, cls, attrs, params) ==
    LET ids == [i \in 1..Len(attrs) |-> st.nextId + i]
        w == Node(cls, st.nextId,
                  [x \in SeqRange(attrs) |->
                      ids[CHOOSE i \in 1..Len(attrs) : attrs[i] = x]],
                  params)
        wpath == JoinPath(name, wname)
    IN  [st EXCEPT
            !.model = [q \in DOMAIN st.model \cup {wpath} |->
                          IF q = wpath THEN w ELSE st.model[q]],
            !.trackers = [t \in DOMAIN st.trackers \cup SeqRange(ids) |->
                          IF t \in SeqRange(ids) THEN NewTracker("max")
                          ELSE st.trackers[t]],
            !.nextId = st.nextId + Len(attrs) + 1]

HasAttr(m, name, attr) == JoinPath(name, attr) \in DOMAIN m

\* One iteration of the loop: the four type tests on the module at `name`.
CustomForwardStep(st, name) ==
    LET module == st.model[name]
        s1 == IF module.cls = "ADown"
              THEN [(IF ~HasAttr(st.model, name, adownchunkop)
                     THEN AttachWrapper(st, name, adownchunkop, "QuantADownChunk",
                                        <<"_input0_quantizer">>,
                                        [x \in {"c"} |-> module.p["c"]])
                     ELSE st)
                    EXCEPT !.forward["ADown"] = "adown_quant_forward"]
              ELSE st
        s2 == IF module.cls = "RepNBottleneck" /\ module.p["add"] = "True"
              THEN [(IF ~HasAttr(s1.model, name, repaddop)
                     THEN AttachWrapper(s1, name, repaddop, "QuantAdd",
                                        <<"_input0_quantizer", "_input1_quantizer">>,
                                        [x \in {"quantization"} |-> module.p["add"]])
                     ELSE s1)
                    EXCEPT !.forward["RepNBottleneck"] = "repnbottleneck_quant_forward"]
              ELSE s1
        s3 == IF module.cls = "Concat"
              THEN [(IF ~HasAttr(s2.model, name, concatop)
                     THEN AttachWrapper(s2, name, concatop, "QuantConcat",
                                        <<"_input0_quantizer", "_input1_quantizer">>,
                                        [x \in {"dim"} |-> module.p["d"]])
                     ELSE s2)
                    EXCEPT !.forward["Concat"] = "concat_quant_forward"]
              ELSE s2
        s4 == IF module.cls = "Upsample"
              THEN [(IF ~HasAttr(s3.model, name, upsampleop)
                     THEN AttachWrapper(s3, name, upsampleop, "QuantUpsample",
                                        <<"_input_quantizer">>,
                                        module.p)
                     ELSE s3)
                    EXCEPT !.forward["Upsample"] = "upsample_quant_forward"]
              ELSE s3
    IN  s4

RECURSIVE CustomForwardLoop(_, _)
CustomForwardLoop(st, names) ==
    IF names = <<>> THEN st
    ELSE CustomForwardLoop(CustomForwardStep(st, Head(names)), Tail(names))

\* st is [model, trackers, nextId, forward]
replace_custom_module_forward(st) ==
    CustomForwardLoop(st, named_modules(st.model))

----------------------------------------------------------------------------
(* The forward functions *)

Computation(fn, args) == [fn |-> fn, args |-> args]

\* The forward of each class as its own file defines it, by the operation it
\* performs and the structural parameters it passes.
OrigForward(cls, p) ==
    IF cls = "ADown" THEN Computation("avg_pool2d;chunk;cv1|max_pool2d;cv2;cat", <<"2", "1">>)
    ELSE IF cls = "RepNBottleneck" THEN
        (IF p["add"] = "True" THEN Computation("x+cv2(cv1(x))", <<>>)
         ELSE Computation("cv2(cv1(x))", <<>>))
    ELSE IF cls = "Concat" THEN Computation("torch.cat", <<p["d"]>>)
    ELSE Computation("F.interpolate", <<p["size"], p["scale_factor"], p["mode"]>>)

adown_quant_forward(p, wrapped) ==
    IF wrapped
    THEN Computation("quant;avg_pool2d;adownchunkop;cv1|quant;max_pool2d;cv2;cat", <<"2", "1">>)
    ELSE Computation("None", <<>>)

repnbottleneck_quant_forward(p, wrapped) ==
    IF wrapped
    THEN (IF p["add"] = "True" THEN Computation("repaddop(x,cv2(cv1(x)))", <<>>)
          ELSE Computation("cv2(cv1(x))", <<>>))
    ELSE (IF p["add"] = "True" THEN Computation("x+cv2(cv1(x))", <<>>)
          ELSE Computation("cv2(cv1(x))", <<>>))

upsample_quant_forward(p, wrapped) ==
    IF wrapped THEN Computation("upsampleop", <<>>)
    ELSE Computation("F.interpolate", <<"None", "None", "nearest">>)

concat_quant_forward(p, wrapped) ==
    IF wrapped THEN Computation("concatop", <<p["d"]>>)
    ELSE Computation("torch.cat", <<p["d"]>>)

\* instance(x): the function bound to the class's forward is the one that runs.
CallModule(table, cls, p, wrapped) ==
    IF table[cls] = "orig" THEN OrigForward(cls, p)
    ELSE IF table[cls] = "adown_quant_forward" THEN adown_quant_forward(p, wrapped)
    ELSE IF table[cls] = "repnbottleneck_quant_forward" THEN repnbottleneck_quant_forward(p, wrapped)
    ELSE IF table[cls] = "upsample_quant_forward" THEN upsample_quant_forward(p, wrapped)
    ELSE concat_quant_forward(p, wrapped)

WrapperOf(cls) ==
    IF cls = "ADown" THEN adownchunkop
    ELSE IF cls = "RepNBottleneck" THEN repaddop
    ELSE IF cls = "Concat" THEN concatop
    ELSE upsampleop

----------------------------------------------------------------------------
(* get_attr_with_path, set_module *)

\* sub_attr: getattr by getattr along the names; AttributeError (ok = FALSE)
\* at the first name the module reached so far does not have.
RECURSIVE sub_attr(_, _, _)
sub_attr(m, cur, names) ==
    LET value == JoinPath(cur, Head(names))
    IN  IF value \notin DOMAIN m THEN [ok |-> FALSE, path |-> value]
        ELSE IF Len(names) = 1 THEN [ok |-> TRUE, path |-> value]
        ELSE sub_attr(m, value, Tail(names))

get_attr_with_path(m, path) == sub_attr(m, <<>>, Split(path))

\* setattr(parent reached through tokens[:-1], tokens[-1], module)
set_module(m, submodule_key, module) ==
    LET tokens == Split(submodule_key)
        sub_tokens == SubSeq(tokens, 1, Len(tokens) - 1)
        cur_mod == IF sub_tokens = <<>> THEN <<>>
                   ELSE sub_attr(m, <<>>, sub_tokens).path
        key == JoinPath(cur_mod, tokens[Len(tokens)])
    IN  [q \in DOMAIN m \cup {key} |-> IF q = key THEN module ELSE m[q]]

----------------------------------------------------------------------------
(* apply_custom_rules_to_quantizer *)

TempFile == "quantization-custom-rules-temp.onnx"

HasInputQuantizer(m, path) == "_input_quantizer" \in DOMAIN m[path].quant

SetQuant(node, attr, t) ==
    [node EXCEPT !.quant = [x \in DOMAIN node.quant \cup {attr} |->
                               IF x = attr THEN t ELSE node.quant[x]]]

\* for major, sub in pairs: the right-hand side is read first, then the target
\* is resolved; either may raise AttributeError, which ends the call.
RECURSIVE PairLoop(_, _)
PairLoop(st, ps) ==
    IF ps = <<>> \/ st.raised THEN st
    ELSE
        LET major == get_attr_with_path(st.model, Head(ps)[1])
            sub == get_attr_with_path(st.model, Head(ps)[2])
        IN  IF ~major.ok \/ ~HasInputQuantizer(st.model, major.path) \/ ~sub.ok
            THEN [st EXCEPT !.raised = TRUE]
            ELSE PairLoop(
                   [st EXCEPT !.model[sub.path] =
                       SetQuant(@, "_input_quantizer",
                                st.model[major.path].quant["_input_quantizer"])],
                   Tail(ps))

RepNBottleneckRuleInput0Only(st, name) ==
    LET c1 == JoinPath(JoinPath(name, cv1), conv)
        add == JoinPath(name, repaddop)
    IN  IF \/ c1 \notin DOMAIN st.model
           \/ ~HasInputQuantizer(st.model, c1)
           \/ add \notin DOMAIN st.model
        THEN [st EXCEPT !.raised = TRUE]
        ELSE LET major == st.model[c1].quant["_input_quantizer"]
             IN  [st EXCEPT !.model[add] = SetQuant(@, "_input0_quantizer", major)]

\* major = module.cv1.conv._input_quantizer; both trackers of module.repaddop
\* become major.  A missing attribute raises AttributeError.
RepNBottleneckRule(st, name) ==
    LET c1 == JoinPath(JoinPath(name, cv1), conv)
        add == JoinPath(name, repaddop)
    IN  IF \/ c1 \notin DOMAIN st.model
           \/ ~HasInputQuantizer(st.model, c1)
           \/ add \notin DOMAIN st.model
        THEN [st EXCEPT !.raised = TRUE]
        ELSE LET major == st.model[c1].quant["_input_quantizer"]
             IN  [st EXCEPT !.model[add] =
                     SetQuant(SetQuant(@, "_input0_quantizer", major),
                              "_input1_quantizer", major)]

\* A new QuantMaxPool2d with an 8-bit histogram input descriptor takes the
\* place of the module.
MaxPoolRule(st, name) ==
    LET quant_maxpool2d ==
            Node("QuantMaxPool2d", st.nextId,
                 [x \in {"_input_quantizer"} |-> st.nextId + 1], NoParams)
    IN  [st EXCEPT
            !.model = set_module(st.model, name, quant_maxpool2d),
            !.trackers = [t \in DOMAIN st.trackers \cup {st.nextId + 1} |->
                            IF t = st.nextId + 1 THEN NewTracker("histogram")
                            ELSE st.trackers[t]],
            !.nextId = st.nextId + 2]

\* isinstance(module, torch.nn.MaxPool2d): QuantMaxPool2d is a subclass
IsMaxPool2d(cls) == cls \in {"MaxPool2d", "QuantMaxPool2d"}

RECURSIVE RulesLoop(_, _)
RulesLoop(st, names) ==
    IF names = <<>> \/ st.raised THEN st
    ELSE
        LET name == Head(names)
            module == st.model[name]
            s1 == IF module.cls = "RepNBottleneck" /\ module.p["add"] = "True"
                  THEN RepNBottleneckRule(st, name)
                  ELSE st
            s2 == IF ~s1.raised /\ IsMaxPool2d(module.cls)
                  THEN MaxPoolRule(s1, name)
                  ELSE s1
        IN  RulesLoop(s2, Tail(names))

ExportOutcomes == {"ok", "raise_before_write", "raise_after_write"}

\* st is [model, trackers, nextId, files, raised].  `export` is what the export
\* collaborator does, `parsed` whether find_quantizer_pairs returns, and `ps`
\* the pairs it returns.
apply_custom_rules_to_quantizer(st, export, parsed, ps) ==
    LET s1 == IF export = "raise_before_write" THEN [st EXCEPT !.raised = TRUE]
              ELSE IF export = "raise_after_write"
              THEN [st EXCEPT !.raised = TRUE, !.files = @ \cup {TempFile}]
              ELSE [st EXCEPT !.files = @ \cup {TempFile}]
        s2 == IF s1.raised THEN s1
              ELSE IF ~parsed THEN [s1 EXCEPT !.raised = TRUE]
              ELSE PairLoop(s1, ps)
        s3 == IF s2.raised THEN s2 ELSE [s2 EXCEPT !.files = @ \ {TempFile}]
    IN  IF s3.raised THEN s3 ELSE RulesLoop(s3, named_modules(s3.model))

----------------------------------------------------------------------------
(* The rewrite pipeline on the detection graph *)

MaxPairs == 2

Last(seq) == seq[Len(seq)]

Returned(op) == pc = "idle" /\ history # <<>> /\ Last(history) = op

\* The paths find_quantizer_pairs may name: three convolutions, the
\* max-pooling node and a path the model does not have.
PairPaths ==
    { P(P(m0, cv1), conv), P(P(m1, cv1), conv), P(P(m1, cv2), conv), m3, nowhere }

\* (major, subordinate) pairs of distinct paths; the missing path stands as a
\* subordinate only (as a major it fails the same getattr).
PairSeqs ==
    SeqsUpTo({<<x, y>> : x \in PairPaths \ {nowhere}, y \in PairPaths}
                 \ {<<x, x>> : x \in PairPaths},
             MaxPairs)

InitGraph ==
    /\ pc = "idle"
    /\ initialized \in BOOLEAN
    /\ \E native \in BOOLEAN, add \in BOOLEAN :
          /\ native => initialized
          /\ model = Graph(add, native)
    /\ trackers = TreeTrackers(model, initialized)
    /\ nextId = FreshId(model, trackers)
    /\ origin = model
    /\ ignore_policy = NonePolicy
    /\ history = <<>>
    /\ files = {}
    /\ pairs = <<>>
    /\ forward = OrigForwardTable
    /\ lastCall = NoCall
    /\ cal = CalIdle
    /\ ft = FtIdle

\* replace_custom_module_forward(model)
ReplaceCustomModuleForward ==
    /\ pc = "idle"
    /\ "replace_custom_module_forward" \notin SeqRange(history)
    /\ LET st == replace_custom_module_forward(
                     [model |-> model, trackers |-> trackers, nextId |-> nextId,
                      forward |-> forward])
       IN  /\ model' = st.model
           /\ trackers' = st.trackers
           /\ nextId' = st.nextId
           /\ forward' = st.forward
    /\ history' = Append(history, "replace_custom_module_forward")
    /\ UNCHANGED <<pc, initialized, origin, ignore_policy, files, pairs,
                   lastCall, cal, ft>>

\* apply_custom_rules_to_quantizer(model, export_onnx)
ApplyCustomRulesToQuantizer ==
    /\ pc = "idle"
    /\ "apply_custom_rules_to_quantizer" \notin SeqRange(history)
    /\ \E export \in ExportOutcomes, parsed \in BOOLEAN, ps \in PairSeqs :
          /\ (export # "ok" \/ ~parsed) => ps = <<>>
          /\ LET st == apply_custom_rules_to_quantizer(
                           [model |-> model, trackers |-> trackers,
                            nextId |-> nextId, files |-> files, raised |-> FALSE],
                           export, parsed, ps)
             IN  /\ model' = st.model
                 /\ trackers' = st.trackers
                 /\ nextId' = st.nextId
                 /\ files' = st.files
                 /\ pc' = IF st.raised THEN "raised" ELSE "idle"
                 /\ history' = IF st.raised THEN history
                               ELSE Append(history, "apply_custom_rules_to_quantizer")
          /\ pairs' = ps
    /\ UNCHANGED <<initialized, origin, ignore_policy, forward, lastCall, cal, ft>>

NextRules ==
    \/ ReplaceToQuantizationModule
    \/ ReplaceCustomModuleForward
    \/ ApplyCustomRulesToQuantizer

SpecRules == InitGraph /\ [][NextRules]_vars

----------------------------------------------------------------------------
(* Invoking instances of the four overridden classes *)

\* Instances of the same classes that belong to another model of the process,
\* which replace_custom_module_forward was never given: none owns a wrapper.
OtherInstances ==
    { [cls |-> "ADown", p |-> [x \in {"c"} |-> "64"]],
      [cls |-> "RepNBottleneck", p |-> [x \in {"add"} |-> "True"]],
      [cls |-> "RepNBottleneck", p |-> [x \in {"add"} |-> "False"]],
      [cls |-> "Concat", p |-> [x \in {"d"} |-> "1"]],
      [cls |-> "Upsample", p |-> [x \in {"size", "scale_factor", "mode"} |->
                                    IF x = "size" THEN "None"
                                    ELSE IF x = "scale_factor" THEN "2" ELSE "nearest"]] }

\* module(x) on a node of the model
InvokeNode ==
    /\ pc = "idle"
    /\ \E name \in DOMAIN model :
          /\ model[name].cls \in IrregularClasses
          /\ LET module == model[name]
                 wrapped == HasAttr(model, name, WrapperOf(module.cls))
             IN  lastCall' = [cls |-> module.cls, wrapped |-> wrapped, p |-> module.p,
                              result |-> CallModule(forward, module.cls, module.p, wrapped)]
    /\ UNCHANGED <<pc, initialized, model, trackers, nextId, origin, ignore_policy,
                   history, files, pairs, forward, cal, ft>>

\* module(x) on an instance of another model
InvokeOther ==
    /\ pc = "idle"
    /\ \E module \in OtherInstances :
          lastCall' = [cls |-> module.cls, wrapped |-> FALSE, p |-> module.p,
                       result |-> CallModule(forward, module.cls, module.p, FALSE)]
    /\ UNCHANGED <<pc, initialized, model, trackers, nextId, origin, ignore_policy,
                   history, files, pairs, forward, cal, ft>>

NextForward ==
    \/ ReplaceCustomModuleForward
    \/ InvokeNode
    \/ InvokeOther

SpecForward == InitGraph /\ [][NextForward]_vars

----------------------------------------------------------------------------
(* C2, C3, C6, C10 *)

\* The node at `name` owns a tracker when it or a module below it holds one.
have_quantizer(m, name) == \E q \in DOMAIN m : Under(name, q) /\ DOMAIN m[q].quant # {}

InOrderNoPolicy ==
    /\ pc = "idle"
    /\ history = <<"replace_to_quantization_module",
                   "replace_custom_module_forward",
                   "apply_custom_rules_to_quantizer">>
    /\ ignore_policy = NonePolicy
    /\ model[m1].p["add"] = "True"

\* C2: on the graph with one ADown, one RepNBottleneck (add=True), one Concat
\* and one MaxPool2d, after the rewrite, the wrapper attachment and the rule
\* resolution have returned in that order with no ignore policy, each of the
\* four nodes owns at least one tracker and both trackers of the
\* RepNBottleneck's repaddop are the very tracker that cv1.conv holds as its
\* input tracker at that point.
C2_FourNodesTrackedAndAddShares ==
    InOrderNoPolicy =>
        /\ \A name \in {m0, m1, m2, m3} : have_quantizer(model, name)
        /\ HasInputQuantizer(model, P(P(m1, cv1), conv))
        /\ LET major == model[P(P(m1, cv1), conv)].quant["_input_quantizer"]
               add == model[P(m1, repaddop)].quant
           IN  /\ add["_input0_quantizer"] = major
               /\ add["_input1_quantizer"] = major
               /\ major \in DOMAIN trackers

\* The pipeline has returned and an export-derived pair had re-pointed
\* cv1.conv's input tracker before the residual-add rule read it.
C2_Witness ==
    /\ InOrderNoPolicy
    /\ pairs = << <<P(P(m0, cv1), conv), P(P(m1, cv1), conv)>> >>
    /\ model[P(P(m1, cv1), conv)].quant["_input_quantizer"]
           = model[P(P(m0, cv1), conv)].quant["_input_quantizer"]
    /\ model[P(m1, repaddop)].quant["_input1_quantizer"]
           = model[P(P(m0, cv1), conv)].quant["_input_quantizer"]
    /\ model[m3].cls = "QuantMaxPool2d"

\* C3: when apply_custom_rules_to_quantizer returns, every pair (major, sub)
\* the parser returned has sub's input tracker identical to major's.
C3_PairsShareAtReturn ==
    Returned("apply_custom_rules_to_quantizer") =>
        \A i \in DOMAIN pairs :
            /\ HasInputQuantizer(model, pairs[i][1])
            /\ HasInputQuantizer(model, pairs[i][2])
            /\ model[pairs[i][2]].quant["_input_quantizer"]
                   = model[pairs[i][1]].quant["_input_quantizer"]

\* C6: once apply_custom_rules_to_quantizer has ended, by return or by an
\* error, the temporary interchange file does not exist.
C6_TempFileRemovedOnEveryOutcome ==
    (pc = "raised" \/ "apply_custom_rules_to_quantizer" \in SeqRange(history))
        => TempFile \notin files

\* C10: once a class's forward is overridden, an instance without its wrapper
\* computes what the class's original forward computes, with the instance's
\* own parameters, and an instance with the wrapper goes through the wrapper.
C10_FallbackIsOriginalComputation ==
    (lastCall.cls # "" /\ forward[lastCall.cls] # "orig") =>
        IF lastCall.wrapped
        THEN lastCall.result # OrigForward(lastCall.cls, lastCall.p)
        ELSE lastCall.result = OrigForward(lastCall.cls, lastCall.p)

----------------------------------------------------------------------------
(* calibrate_model *)

MaxNumBatch == 5

MaxBatches == 10

AttrOrder == <<"_input_quantizer", "_weight_quantizer",
               "_input0_quantizer", "_input1_quantizer">>

\* The tracker ids a node holds, in attribute order.
NodeTrackers(node) ==
    LET held == SelectSeq(AttrOrder, LAMBDA x : x \in DOMAIN node.quant)
    IN  [i \in 1..Len(held) |-> node.quant[held[i]]]

RECURSIVE Flatten(_)
Flatten(ss) == IF ss = <<>> THEN <<>> ELSE Head(ss) \o Flatten(Tail(ss))

RECURSIVE Dedup(_, _)
Dedup(seq, seen) ==
    IF seq = <<>> THEN <<>>
    ELSE IF Head(seq) \in seen THEN Dedup(Tail(seq), seen)
    ELSE <<Head(seq)>> \o Dedup(Tail(seq), seen \cup {Head(seq)})

\* The TensorQuantizer modules model.named_modules() yields: each object once,
\* however many nodes hold it.
NamedTrackers(m) ==
    LET names == named_modules(m)
    IN  Dedup(Flatten([i \in 1..Len(names) |-> NodeTrackers(m[names[i]])]), {})

\* collect_stats, "Enable calibrators": disable_quant() and enable_calib() for
\* a tracker with a calibrator, disable() for one without.
EnableCalibrator(t) ==
    IF t.calib # "none" THEN [t EXCEPT !.if_quant = FALSE, !.if_calib = TRUE]
    ELSE [t EXCEPT !.disabled = TRUE]

DisableCalibratorKeepsCollecting(t) ==
    IF t.calib # "none" THEN [t EXCEPT !.if_quant = TRUE]
    ELSE [t EXCEPT !.disabled = FALSE]

\* collect_stats, "Disable calibrators": enable_quant() and disable_calib() for
\* a tracker with a calibrator, enable() for one without.
DisableCalibrator(t) ==
    IF t.calib # "none" THEN [t EXCEPT !.if_quant = TRUE, !.if_calib = FALSE]
    ELSE [t EXCEPT !.disabled = FALSE]

BreakOneEarlier(i, num_batch) == i + 1 >= num_batch

\* if i >= num_batch: break
BreakAfterBatch(i, num_batch) == i >= num_batch

\* How many times one forward pass of the model calls tracker `id`: once for
\* each attribute holding it on a node the pass runs through.  The top-level
\* nodes in `unused` are not on the pass's route.
Calls(m, unused, id) ==
    Cardinality({qa \in {<<q, x>> : q \in DOMAIN m, x \in SeqRange(AttrOrder)} :
                    /\ qa[2] \in DOMAIN m[qa[1]].quant
                    /\ m[qa[1]].quant[qa[2]] = id
                    /\ ~\E u \in unused : Under(u, qa[1])})

\* TensorQuantizer.forward: a disabled tracker returns its input at once; one
\* that is collecting hands the tensor to its calibrator.
model_forward(m, tr, unused) ==
    [id \in DOMAIN tr |->
        IF ~tr[id].disabled /\ tr[id].if_calib
        THEN [tr[id] EXCEPT !.samples = @ + Calls(m, unused, id)]
        ELSE tr[id]]

\* module.load_calib_amax(strict=...): the calibrator of a tracker that saw
\* no tensor returns None; then strict raises RuntimeError and strict=False
\* stores NaN.
load_calib_amax(t, strict) ==
    IF t.samples = 0
    THEN (IF strict THEN [raised |-> TRUE, t |-> t]
          ELSE [raised |-> FALSE, t |-> [t EXCEPT !.amax = "nan"]])
    ELSE [raised |-> FALSE, t |-> [t EXCEPT !.amax = "value"]]

\* compute_amax(model, method="percentile", percentile=99.999, strict=False):
\* a MaxCalibrator's tracker is loaded without the keyword arguments, hence
\* with the library's default strict=True.  st is [trackers, raised].
RECURSIVE compute_amax(_, _)
compute_amax(st, ids) ==
    IF ids = <<>> \/ st.raised THEN st
    ELSE
        LET module == st.trackers[Head(ids)]
            r == IF module.calib = "max" THEN load_calib_amax(module, TRUE)
                 ELSE load_calib_amax(module, FALSE)
        IN  IF module.calib = "none" THEN compute_amax(st, Tail(ids))
            ELSE compute_amax(
                   [trackers |-> [st.trackers EXCEPT ![Head(ids)] = r.t],
                    raised |-> r.raised],
                   Tail(ids))


Pipeline ==
    <<"replace_to_quantization_module", "replace_custom_module_forward",
      "apply_custom_rules_to_quantizer">>

\* The three operations in turn, each applied to the value the one before
\* returned.
PreparedFrom(g, tr, init, ps) ==
    Only(UNION { UNION { { [model |-> s3.model, trackers |-> s3.trackers,
                            nextId |-> s3.nextId, forward |-> s2.forward] :
                           s3 \in {apply_custom_rules_to_quantizer(
                                       [model |-> s2.model, trackers |-> s2.trackers,
                                        nextId |-> s2.nextId, files |-> {},
                                        raised |-> FALSE],
                                       "ok", TRUE, ps)} } :
                         s2 \in {replace_custom_module_forward(
                                     [model |-> s1.model, trackers |-> s1.trackers,
                                      nextId |-> s1.nextId,
                                      forward |-> OrigForwardTable])} } :
                 s1 \in {replace_to_quantization_module(
                             [model |-> g, trackers |-> tr, nextId |-> FreshId(g, tr)],
                             NonePolicy, init)} })

\* The detection graph (add=True) after the rewrite, the wrapper attachment
\* and the rule resolution with the pairs `ps`.
Prepared(init, ps) ==
    PreparedFrom(Graph(TRUE, init), TreeTrackers(Graph(TRUE, init), init), init, ps)

SharingChoices == {<<>>, << <<P(P(m0, cv1), conv), P(P(m1, cv2), conv)>> >>}

\* The prepared models, one for each way of preparing.
PreparedModels ==
    [init \in BOOLEAN, ps \in SharingChoices |-> Prepared(init, ps)]

\* A prepared model as calibrate_model may find it: `bare` strips the
\* calibrator of the Concat wrapper's trackers, `off` has the input tracker of
\* m0.cv2.conv disabled (disable_quantization on that layer).
InitCalib ==
    /\ pc = "idle"
    /\ initialized \in BOOLEAN
    /\ \E ps \in SharingChoices, bare \in BOOLEAN, off \in BOOLEAN :
          LET s == PreparedModels[initialized, ps]
              strip == IF bare THEN {s.model[P(m2, concatop)].quant[x] :
                                        x \in DOMAIN s.model[P(m2, concatop)].quant}
                       ELSE {}
              dis == IF off THEN {s.model[P(P(m0, cv2), conv)].quant["_input_quantizer"]}
                     ELSE {}
          IN  /\ model = s.model
              /\ trackers = [id \in DOMAIN s.trackers |->
                                [s.trackers[id] EXCEPT
                                    !.calib = IF id \in strip THEN "none" ELSE @,
                                    !.disabled = id \in dis]]
              /\ nextId = s.nextId
              /\ forward = s.forward
              /\ pairs = ps
    /\ origin = model
    /\ ignore_policy = NonePolicy
    /\ history = Pipeline
    /\ files = {}
    /\ lastCall = NoCall
    /\ \E n \in 0..MaxNumBatch, k \in 0..MaxBatches, unused \in SUBSET {m2} :
          cal = [num_batch |-> n, batches |-> k, i |-> 0, consumed |-> 0,
                 unused |-> unused]
    /\ ft = FtIdle

\* collect_stats: model.eval() and "Enable calibrators"
CollectStatsEnable ==
    /\ pc = "idle"
    /\ "calibrate_model" \notin SeqRange(history)
    /\ trackers' = [id \in DOMAIN trackers |->
                       IF id \in SeqRange(NamedTrackers(model))
                       THEN EnableCalibrator(trackers[id]) ELSE trackers[id]]
    /\ pc' = "collecting"
    /\ cal' = [cal EXCEPT !.i = 0, !.consumed = 0]
    /\ UNCHANGED <<initialized, model, nextId, origin, ignore_policy, history,
                   files, pairs, forward, lastCall, ft>>

\* One turn of the loop over enumerate(data_loader): a batch is drawn and
\* forwarded, then the loop breaks or goes on to the next index.
CollectForwardBatch ==
    /\ pc = "collecting"
    /\ cal.consumed < cal.batches
    /\ trackers' = model_forward(model, trackers, cal.unused)
    /\ IF BreakAfterBatch(cal.i, cal.num_batch)
       THEN /\ pc' = "collected"
            /\ cal' = [cal EXCEPT !.consumed = @ + 1]
       ELSE /\ pc' = "collecting"
            /\ cal' = [cal EXCEPT !.consumed = @ + 1, !.i = @ + 1]
    /\ UNCHANGED <<initialized, model, nextId, origin, ignore_policy, history,
                   files, pairs, forward, lastCall, ft>>

\* The data source has no further batch: the loop ends.
CollectExhausted ==
    /\ pc = "collecting"
    /\ cal.consumed = cal.batches
    /\ pc' = "collected"
    /\ UNCHANGED <<initialized, model, trackers, nextId, origin, ignore_policy,
                   history, files, pairs, forward, lastCall, cal, ft>>

\* collect_stats: "Disable calibrators"
CollectStatsDisable ==
    /\ pc = "collected"
    /\ trackers' = [id \in DOMAIN trackers |->
                       IF id \in SeqRange(NamedTrackers(model))
                       THEN DisableCalibrator(trackers[id]) ELSE trackers[id]]
    /\ pc' = "computing"
    /\ UNCHANGED <<initialized, model, nextId, origin, ignore_policy, history,
                   files, pairs, forward, lastCall, cal, ft>>

\* compute_amax(model, method="percentile", percentile=99.999, strict=False)
ComputeAmax ==
    /\ pc = "computing"
    /\ LET st == compute_amax([trackers |-> trackers, raised |-> FALSE],
                              NamedTrackers(model))
       IN  /\ trackers' = st.trackers
           /\ pc' = IF st.raised THEN "raised" ELSE "idle"
           /\ history' = IF st.raised THEN history
                         ELSE Append(history, "calibrate_model")
    /\ UNCHANGED <<initialized, model, nextId, origin, ignore_policy, files,
                   pairs, forward, lastCall, cal, ft>>

NextCalib ==
    \/ CollectStatsEnable
    \/ CollectForwardBatch
    \/ CollectExhausted
    \/ CollectStatsDisable
    \/ ComputeAmax

SpecCalib == InitCalib /\ [][NextCalib]_vars

----------------------------------------------------------------------------
(* C4, C5, C9 *)

Min(x, y) == IF x <= y THEN x ELSE y

CollectEnded == pc \in {"collected", "computing", "raised"} \/ Returned("calibrate_model")

\* C4: with num_batch = N over a source of M batches the collect phase
\* forwards exactly min(M, N+1) batches, never more while it runs.
C4_ConsumesMinOfSourceAndOnePast ==
    /\ cal.consumed <= Min(cal.batches, cal.num_batch + 1)
    /\ CollectEnded => cal.consumed = Min(cal.batches, cal.num_batch + 1)

\* num_batch = 5 over a 10-batch source: the loop has ended after 6 batches.
C4_Witness ==
    /\ pc = "collected"
    /\ cal.num_batch = 5
    /\ cal.batches = 10
    /\ cal.consumed = 6

Reachable(m) == SeqRange(NamedTrackers(m))

NeverExercised(id) == trackers[id].calib # "none" /\ trackers[id].samples = 0

\* C5: calibrate_model does not raise on a model with a tracker that received
\* no sample in the collect phase, whichever calibrator it has.
C5_NeverRaisesOnUnexercisedTracker ==
    (\E id \in Reachable(model) : NeverExercised(id)) => pc # "raised"

\* C9: when calibrate_model has returned, every tracker of the model with a
\* calibrator is quantizing and not collecting, and every tracker without one
\* is enabled.
C9_TrackersLeftQuantizing ==
    Returned("calibrate_model") =>
        \A id \in Reachable(model) :
            IF trackers[id].calib # "none"
            THEN trackers[id].if_quant /\ ~trackers[id].if_calib
            ELSE ~trackers[id].disabled

\* calibrate_model has returned on a model with a tracker two convolutions
\* share, a tracker without calibrator, and batches that were collected.
C9_Witness ==
    /\ Returned("calibrate_model")
    /\ cal.consumed > 0
    /\ model[P(P(m0, cv1), conv)].quant["_input_quantizer"]
           = model[P(P(m1, cv2), conv)].quant["_input_quantizer"]
    /\ trackers[model[P(P(m0, cv1), conv)].quant["_input_quantizer"]].samples > 0
    /\ \E id \in Reachable(model) : trackers[id].calib = "none"

----------------------------------------------------------------------------
(* finetune *)

MaxEpochs == 2

MaxBudget == 2

MaxFtBatches == 3

\* supervision_policy(mname, ml): absent, or a predicate over the node name.
SupervisionPolicies == {"none", "reject_all", "top_level"}

Supervised(policy, mname) ==
    IF policy = "none" THEN TRUE
    ELSE IF policy = "reject_all" THEN FALSE
    ELSE Len(Split(mname)) = 1 /\ mname # <<>>

\* The lock-step walk of model and origin_model: TensorQuantizer modules are
\* skipped, then the nodes the policy rejects.  A pair is named by the path
\* its two nodes have in both trees; the root is the empty path.
supervision_module_pairs(m, policy) ==
    SelectSeq(<< <<>> >> \o named_modules(m), LAMBDA mname : Supervised(policy, mname))

\* The hooks one epoch registers: for every pair one on the live node and one
\* on the reference node, with handles numbered from `first`.
RECURSIVE RegisterHooks(_, _)
RegisterHooks(names, first) ==
    IF names = <<>> THEN <<>>
    ELSE << [on |-> "model", node |-> Head(names), handle |-> first],
            [on |-> "origin_model", node |-> Head(names), handle |-> first + 1] >>
         \o RegisterHooks(Tail(names), first + 2)

\* quant_loss = 0, then += one MSE term for each pair of captured outputs:
\* the number of terms of a batch on which every supervised node ran once.
LossTerms(sup) == Len(sup)

\* scaler.scale(quant_loss).backward() / quant_loss.backward() and
\* quant_loss.detach(): a loss that took no term is still the int 0, which is
\* no tensor, and each of these raises on it.
BackwardRaises(terms, fp16) == terms = 0

InitFinetune ==
    /\ pc = "idle"
    /\ initialized \in BOOLEAN
    /\ LET s == PreparedModels[initialized, <<>>]
       IN  /\ model = s.model
           /\ trackers = s.trackers
           /\ nextId = s.nextId
           /\ forward = s.forward
    /\ origin = model
    /\ ignore_policy = NonePolicy
    /\ history = Pipeline
    /\ files = {}
    /\ pairs = <<>>
    /\ lastCall = NoCall
    /\ cal = CalIdle
    /\ \E n \in 0..MaxEpochs, budget \in 0..MaxBudget, k \in 0..MaxFtBatches,
          fp16 \in BOOLEAN, cb \in {"none", "stop", "continue"},
          policy \in SupervisionPolicies, nll \in BOOLEAN :
          ft = [FtIdle EXCEPT !.nepochs = n, !.budget = budget, !.batches = k,
                              !.fp16 = fp16, !.callback = cb, !.policy = policy,
                              !.no_last_layer = nll]

ftOther == <<initialized, model, origin, ignore_policy, files, pairs,
             forward, lastCall, cal>>

\* disable_quantization(module).apply(): every tracker at or below `name`
\* is disabled.
disable_quantization(m, tr, name) ==
    [id \in DOMAIN tr |->
        IF \E q \in DOMAIN m : /\ Under(name, q)
                                /\ \E x \in DOMAIN m[q].quant : m[q].quant[x] = id
        THEN [tr[id] EXCEPT !.disabled = TRUE]
        ELSE tr[id]]

\* model.model[len(model.model) - 1]: the last top-level node
LastLayer(m) == Last(Children(m, <<>>))

\* finetune up to the epoch loop: the frozen copy, the optimizer, the
\* supervision pairs.
FinetuneBegin ==
    /\ pc = "idle"
    /\ "finetune" \notin SeqRange(history)
    /\ trackers' = IF ft.no_last_layer /\ have_quantizer(model, LastLayer(model))
                   THEN disable_quantization(model, trackers, LastLayer(model))
                   ELSE trackers
    /\ ft' = [ft EXCEPT !.sup = supervision_module_pairs(model, ft.policy),
                        !.iepoch = 0]
    /\ pc' = "epoch"
    /\ UNCHANGED <<nextId, history>>
    /\ UNCHANGED ftOther

\* The head of one epoch: the learning rate, the fresh buffers, the hooks.
EpochBegin ==
    /\ pc = "epoch"
    /\ ft.iepoch < ft.nepochs
    /\ LET new == RegisterHooks(ft.sup, nextId)
       IN  /\ ft' = [ft EXCEPT !.hooks = @ \cup SeqRange(new),
                               !.remove_handle = [i \in DOMAIN new |-> new[i].handle],
                               !.ibatch = 0]
           /\ nextId' = nextId + Len(new)
    /\ pc' = "batch"
    /\ UNCHANGED history
    /\ UNCHANGED <<trackers, ftOther>>

\* range(nepochs) is exhausted: finetune returns.
FinetuneReturn ==
    /\ pc = "epoch"
    /\ ft.iepoch >= ft.nepochs
    /\ pc' = "idle"
    /\ history' = Append(history, "finetune")
    /\ UNCHANGED <<nextId, ft>>
    /\ UNCHANGED <<trackers, ftOther>>

\* The batch loop ends: the data source is exhausted, or ibatch has reached
\* early_exit_batchs_per_epoch and the loop breaks.
BatchLoopEnd ==
    /\ pc = "batch"
    /\ ft.ibatch = ft.batches \/ ft.ibatch >= ft.budget
    /\ pc' = "hooks"
    /\ UNCHANGED <<nextId, history, ft>>
    /\ UNCHANGED <<trackers, ftOther>>

\* One batch: preprocess and the two forward passes, which may raise
\* (`fails`); then the loss, the backward pass and the optimizer step.
BatchStep ==
    /\ pc = "batch"
    /\ ft.ibatch < ft.batches
    /\ ft.ibatch < ft.budget
    /\ \E fails \in BOOLEAN :
          IF fails
          THEN /\ pc' = "raised"
               /\ ft' = [ft EXCEPT !.error = "batch"]
          ELSE IF BackwardRaises(LossTerms(ft.sup), ft.fp16)
          THEN /\ pc' = "raised"
               /\ ft' = [ft EXCEPT !.error = "loss"]
          ELSE /\ pc' = "batch"
               /\ ft' = [ft EXCEPT !.steps = @ + 1, !.ibatch = @ + 1]
    /\ UNCHANGED <<nextId, history>>
    /\ UNCHANGED <<trackers, ftOther>>

\* After the batch loop: every handle of the epoch is removed, then the
\* per-epoch callback may end the training.
EpochEnd ==
    /\ pc = "hooks"
    /\ LET left == {h \in ft.hooks : h.handle \notin SeqRange(ft.remove_handle)}
       IN  IF ft.callback = "stop"
           THEN /\ pc' = "idle"
                /\ history' = Append(history, "finetune")
                /\ ft' = [ft EXCEPT !.hooks = left]
           ELSE /\ pc' = "epoch"
                /\ history' = history
                /\ ft' = [ft EXCEPT !.hooks = left, !.iepoch = @ + 1]
    /\ UNCHANGED nextId
    /\ UNCHANGED <<trackers, ftOther>>

NextFinetune ==
    \/ FinetuneBegin
    \/ EpochBegin
    \/ FinetuneReturn
    \/ BatchLoopEnd
    \/ BatchStep
    \/ EpochEnd

SpecFinetune == InitFinetune /\ [][NextFinetune]_vars

----------------------------------------------------------------------------
(* C7, C8 *)

\* C7: the hooks finetune attached are detached on every way out of the epoch
\* loop: none is left between two epochs, nor once finetune has ended by
\* return or by an error.
C7_HooksDetachedOnEveryExit ==
    (pc \in {"epoch", "raised"} \/ Returned("finetune")) => ft.hooks = {}

\* C8: with an empty supervision-pair list finetune raises nothing of its own:
\* the only error is one the batch's preprocessing or forward pass raised.
C8_EmptySupervisionCompletes ==
    (ft.sup = <<>> /\ pc = "raised") => ft.error = "batch"

====
